---- MODULE Spec2Model ----
(***************************************************************************)
(* The per-connection delivery pipeline of the broker (server/client.go):  *)
(* one read loop per client session, the ping and auth timer callbacks,    *)
(* closeConnection run by whichever context detects the failure, and the   *)
(* shared Subject Index (sublist) and Hub registry they all touch.         *)
(*                                                                         *)
(* Granularity: one step per critical section of a client mutex and one    *)
(* step per access to shared state made without the mutex (the unlocked    *)
(* reads of c.conn, the unlocked write of sub.max, the Index and registry  *)
(* calls, which have their own locks).  A step that would lock a mutex is  *)
(* enabled only while the mutex is free: Go mutexes are not reentrant.     *)
(***************************************************************************)
EXTENDS Integers, Sequences, FiniteSets, TLC

\* ---------------------------------------------------------------- bounds
NClients == 2
MaxEvents == 4
MaxSubs == 2
MaxSid == 1
MaxUnsubMax == 1
MaxNegPout == 1
MaxPingsOut == 1

Clients == 1..NClients
Sids == 1..MaxSid
\* UNSUB's max argument: -1 when absent (client.go:328), else the parsed number.
UnsubMaxes == {-1} \cup (1..MaxUnsubMax)

\* Subjects are token sequences ("foo.bar" is <<"foo","bar">>).
SubSubjects == { <<"foo">>, <<"foo", "">> }
PubSubjects == { <<"foo">>, <<"*">> }
\* The nil queue (client.go:287) is the empty string.
Queues == { "", "q" }

NoThread == <<"none", 0>>
RL(c) == <<"rl", c>>
PT(c) == <<"pt", c>>
AT(c) == <<"at", c>>
Threads == { RL(c) : c \in Clients } \cup { PT(c) : c \in Clients }
             \cup { AT(c) : c \in Clients }

VARIABLES
  conn,      \* conn[c]: c.conn is non-nil (the socket is open)
  mu,        \* mu[c]: the thread holding c.mu, or NoThread
  bw,        \* bw[c]: c.bw holds buffered, un-flushed bytes
  bwerr,     \* bw[c]'s sticky error: "nil", "timeout" or "other"
  sl,        \* the Subject Index: the subscriptions it holds, in insertion order
  clients,   \* the Hub registry of sessions
  subs,      \* every subscription object allocated so far (index = identity)
  sidmap,    \* sidmap[c][sid]: c.subs, 0 when the sid is absent
  pcd,       \* pcd[c]: the pending-flush set of c
  atmr,      \* atmr[c]: c.atmr is non-nil
  ptmr,      \* ptmr[c]: c.ptmr is non-nil
  pout,      \* pout[c]: pings outstanding
  ponged,    \* the sessions that have sent a PONG
  opts,      \* opts[c]: the Verbose and Pedantic options
  auth,      \* auth[c]: what checkAuth said of c's last CONNECT: "", "ok" or "failed"
  pc,        \* pc[t]: where thread t is
  arg,       \* arg[c]: the operation c's parser is handling
  pm,        \* pm[c]: processMsg's locals (r, qmap, sub) and what this publish wrote
  ctgt,      \* ctgt[t]: the session thread t is closing
  csubs,     \* csubs[t]: closeConnection's snapshot of the sid-map still to remove
  cret,      \* cret[t]: where closeConnection returns to
  written,   \* written[s]: MSG lines written to the owner's writer for subscription s
  wlog,      \* wlog[s]: those MSG lines in the order written, as <<publisher, publish, subject, sid>>
  closeDone, \* the sessions for which a closeConnection ran to its end
  panicked,  \* a goroutine has panicked (nothing recovers: the process is gone)
  nops,      \* operations parsed so far, over all sessions
  nfaults    \* environment events so far: timer expiries, I/O and protocol failures

vars == << conn, mu, bw, bwerr, sl, clients, subs, sidmap, pcd, atmr, ptmr, pout, ponged,
           opts, auth, pc, arg, pm, ctgt, csubs, cret, written, wlog, closeDone, panicked, nops, nfaults >>

\* ------------------------------------------------------ the Subject Index
\* A subject is valid when no token is empty and ">" is only the last token.
IsValidSubject(subject) ==
  /\ Len(subject) > 0
  /\ \A i \in 1..Len(subject) :
       /\ subject[i] # ""
       /\ (subject[i] = ">" => i = Len(subject))

IsValidLiteralSubject(subject) ==
  /\ IsValidSubject(subject)
  /\ \A i \in 1..Len(subject) : subject[i] \notin {"*", ">"}

\* Whether a pattern matches a literal subject: token by token, "*" one token,
\* a final ">" one or more trailing tokens.
RECURSIVE matchLevel(_, _)
matchLevel(pattern, toks) ==
  IF pattern = <<>> THEN toks = <<>>
  ELSE IF toks = <<>> THEN FALSE
  ELSE IF Head(pattern) = ">" THEN TRUE
  ELSE /\ Head(pattern) \in {"*", Head(toks)}
       /\ matchLevel(Tail(pattern), Tail(toks))

\* Index.Insert: rejects an invalid subject, else adds the handle.
InsertOK(subject) == IsValidSubject(subject)
Insert(index, subject, s) == IF InsertOK(subject) THEN Append(index, s) ELSE index

\* Index.Remove: drops the entry whose identity is s; nothing when absent.
Remove(index, s) == SelectSeq(index, LAMBDA x : x # s)

\* Index.Match: plain subscriptions first, then the queue ones, each in insertion order.
Match(index, subject) ==
  IF ~IsValidLiteralSubject(subject) THEN <<>>
  ELSE LET hit(x) == matchLevel(subs[x].subject, subject)
       IN  SelectSeq(index, LAMBDA x : hit(x) /\ subs[x].queue = "")
             \o SelectSeq(index, LAMBDA x : hit(x) /\ subs[x].queue # "")

Range(f) == { f[x] : x \in DOMAIN f }
InIndex(s) == s \in Range(sl)

\* ------------------------------------------------------------ the writer
\* The state of a bufio.Writer: whether it holds un-flushed bytes, and its
\* sticky error ("nil", "timeout", "other"): once a flush to the socket
\* failed, every later Write and Flush returns that error.
Writer(b, e) == [bw |-> b, err |-> e]

\* What Flush can leave behind.  Nothing to do on an empty buffer; a closed
\* socket fails; an open one accepts the bytes or (mayFail) fails, with a
\* timeout only when a write deadline is set.
FlushOutcomes(w, open, deadline, mayFail) ==
  IF w.err # "nil" THEN {w}
  ELSE IF ~w.bw THEN {w}
  ELSE IF ~open THEN {Writer(TRUE, "other")}
  ELSE {Writer(FALSE, "nil")}
         \cup (IF mayFail THEN {Writer(TRUE, "other")} ELSE {})
         \cup (IF mayFail /\ deadline THEN {Writer(TRUE, "timeout")} ELSE {})

\* What Write of one line can leave behind.  The line fits and is buffered;
\* or the buffer lacks room and is flushed to the socket first, which can set
\* the sticky error.  A MSG (large: its payload can fill any buffer) may lack
\* room always, a control line only in a buffer that already holds bytes.
\* deliverMsg sets a write deadline on the target's conn before a MSG write
\* that will flush: with the conn nil that call panics ("panic": no writer is
\* left behind, the process dies).  A flush that blocks on a socket that takes
\* no bytes is a step not taken yet.
WriteOutcomes(w, open, deadline, large, mayFail) ==
  IF large /\ ~open
  THEN {IF w.err # "nil" THEN w ELSE Writer(TRUE, "nil"), Writer(w.bw, "panic")}
  ELSE IF w.err # "nil" THEN {w}
  ELSE {Writer(TRUE, "nil")}
         \cup (IF large \/ w.bw
               THEN { x \in FlushOutcomes(Writer(TRUE, "nil"), open, deadline, mayFail) :
                        x.err # "nil" }
               ELSE {})

W(c) == Writer(bw[c], bwerr[c])
\* A run is given MaxEvents inputs of the environment: an operation a client
\* sends counts for one, a failure (of the socket, of the protocol) or the
\* expiry of a timer for two.
Events == nops + 2 * nfaults
MayFail == Events + 2 <= MaxEvents
\* Storing the writer a critical section leaves behind; a first failure of an
\* open socket is an environment event.
SetWriter(c, w) ==
  /\ bw' = [bw EXCEPT ![c] = w.bw]
  /\ bwerr' = [bwerr EXCEPT ![c] = w.err]
  /\ nfaults' = IF bwerr[c] = "nil" /\ w.err # "nil" /\ conn[c]
                THEN nfaults + 1 ELSE nfaults

\* ------------------------------------------------------------- the state
defaultOpts == [verbose |-> TRUE, pedantic |-> TRUE]
\* The option sets a CONNECT can carry.
ConnectOpts == { [verbose |-> FALSE, pedantic |-> FALSE] }

NoArg == [op |-> "", subject |-> <<>>, sid |-> 0, max |-> 0, sub |-> 0, err |-> FALSE,
          id |-> 0]
NoMsg == [r |-> <<>>, qmap |-> <<>>, sub |-> 0, got |-> {}, picked |-> {}, id |-> 0,
          subject |-> <<>>, plain |-> {}]

Init ==
  /\ conn = [c \in Clients |-> TRUE]
  /\ mu = [c \in Clients |-> NoThread]
  /\ bw = [c \in Clients |-> FALSE]
  /\ bwerr = [c \in Clients |-> "nil"]
  /\ sl = <<>>
  /\ clients = Clients
  /\ subs = <<>>
  /\ sidmap = [c \in Clients |-> [sid \in Sids |-> 0]]
  /\ pcd = [c \in Clients |-> {}]
  /\ atmr = [c \in Clients |-> TRUE]
  /\ ptmr = [c \in Clients |-> TRUE]
  /\ pout = [c \in Clients |-> 0]
  /\ ponged = {}
  /\ opts = [c \in Clients |-> defaultOpts]
  /\ auth = [c \in Clients |-> ""]
  /\ pc = [t \in Threads |-> IF t[1] = "rl" THEN "read" ELSE "idle"]
  /\ arg = [c \in Clients |-> NoArg]
  /\ pm = [c \in Clients |-> NoMsg]
  /\ ctgt = [t \in Threads |-> 0]
  /\ csubs = [t \in Threads |-> {}]
  /\ cret = [t \in Threads |-> ""]
  /\ written = <<>>
  /\ wlog = <<>>
  /\ closeDone = {}
  /\ panicked = FALSE
  /\ nops = 0
  /\ nfaults = 0

Goto(t, l) == pc' = [pc EXCEPT ![t] = l]

\* No goroutine has panicked: a panic nothing recovers ends the process, and
\* with it every thread.
Running == ~panicked

\* The read loop of c is at one of its accesses to c.pcd made without c.mu:
\* deliverMsg's write, the flush loop's range (which starts when parse has
\* returned) and its delete.
PcdUnlocked(c) == pc[RL(c)] \in {"parse", "dm_pcd", "flush", "fl_del"}

\* The auth timer's goroutine is about to write c.pcd in sendErr, under c.mu.
SendErrPending(c) == pc[AT(c)] = "av_send" /\ mu[c] = NoThread

\* The read loop's unlocked access of c.pcd meets sendErr's write of the same
\* map: the Go runtime may end the process (concurrent map access).
PcdAbort(c) ==
  /\ PcdUnlocked(c)
  /\ SendErrPending(c)
  /\ panicked' = TRUE
  /\ pc' = [pc EXCEPT ![RL(c)] = "panic"]
  /\ UNCHANGED << conn, mu, bw, bwerr, sl, clients, subs, sidmap, pcd, atmr, ptmr, pout, ponged,
                  opts, auth, arg, pm, ctgt, csubs, cret, written, wlog, closeDone, nops, nfaults >>

\* A call of target.closeConnection() by thread t, returning to ret.
CallClose(t, target, ret) ==
  /\ pc' = [pc EXCEPT ![t] = "cc_check"]
  /\ ctgt' = [ctgt EXCEPT ![t] = target]
  /\ cret' = [cret EXCEPT ![t] = ret]
  /\ UNCHANGED csubs

\* sendErr / sendOK: under c.mu, write the line into c.bw (the result of the
\* write is ignored) and put c in its own pending-flush set.
sendLine(c) ==
  /\ mu[c] = NoThread
  /\ \E w \in WriteOutcomes(W(c), conn[c], FALSE, FALSE, MayFail) : SetWriter(c, w)
  /\ pcd' = [pcd EXCEPT ![c] = @ \cup {c}]

\* clearConnection (lock held): nothing on a cleared session; else flush what
\* is buffered, close the socket and clear c.conn.  The result is the writer
\* it leaves behind.
clearConnection(c, w) ==
  IF ~conn[c] THEN {w} ELSE FlushOutcomes(w, TRUE, FALSE, MayFail)

\* unsubscribe (takes c.mu): a subscription whose max is set and not yet
\* passed stays; else its sid leaves the sid-map and its handle the Index.
unsubscribeKeepsNever(s) == FALSE
unsubscribeKeeps(s) == subs[s].max > 0 /\ subs[s].nm <= subs[s].max

unsubscribeSidmapOnly(s) ==
  /\ mu[subs[s].client] = NoThread
  /\ sidmap' = IF unsubscribeKeeps(s) THEN sidmap
               ELSE [sidmap EXCEPT ![subs[s].client][subs[s].sid] = 0]
  /\ UNCHANGED sl
unsubscribe(s) ==
  /\ mu[subs[s].client] = NoThread
  /\ IF unsubscribeKeeps(s)
     THEN UNCHANGED << sidmap, sl >>
     ELSE /\ sidmap' = [sidmap EXCEPT ![subs[s].client][subs[s].sid] = 0]
          /\ sl' = Remove(sl, s)

\* ---------------------------------------------------------- the read loop
\* conn.Read returns a slice: the socket is open and the client has sent
\* something.  parse gets the slice next.
ReadSlice(c) ==
  /\ Running
  /\ pc[RL(c)] = "read"
  /\ conn[c]
  /\ Events + 1 <= MaxEvents
  /\ Goto(RL(c), "parse")
  /\ UNCHANGED << conn, mu, bw, bwerr, sl, clients, subs, sidmap, pcd, atmr, ptmr,
                  pout, ponged, opts, auth, arg, pm, ctgt, csubs, cret, written, wlog, closeDone, panicked, nops,
                  nfaults >>

\* The read loop of c is in parse, handing the operations of the slice it read
\* to their handlers, one after the other.
Parsing(c) ==
  /\ Events + 1 <= MaxEvents
  /\ pc[RL(c)] = "parse"

\* Where a handler that is done leaves the read loop: +OK (or -ERR) to send, or
\* back in parse.
AfterOp(c, err) == IF err \/ opts[c].verbose THEN "op_ret" ELSE "parse"

\* conn.Read fails: the peer went away, or the socket was closed under the
\* loop.  The loop closes the connection and returns.
ReadErr(c) ==
  /\ Running
  /\ pc[RL(c)] = "read"
  /\ conn[c] => MayFail
  /\ nfaults' = IF conn[c] THEN nfaults + 1 ELSE nfaults
  /\ CallClose(RL(c), c, "done")
  /\ UNCHANGED << conn, mu, bw, bwerr, sl, clients, subs, sidmap, pcd, atmr, ptmr,
                  pout, ponged, opts, auth, arg, pm, written, wlog, closeDone, panicked, nops >>

\* parse returns an error (bad verb, bad arguments): readLoop sends
\* -ERR 'Parser Error', closes and returns.
ParseError(c) ==
  /\ Running
  /\ Parsing(c)
  /\ MayFail
  /\ nfaults' = nfaults + 1
  /\ Goto(RL(c), "perr")
  /\ UNCHANGED << conn, mu, bw, bwerr, sl, clients, subs, sidmap, pcd, atmr, ptmr,
                  pout, ponged, opts, auth, arg, pm, ctgt, csubs, cret, written, wlog, closeDone, panicked, nops >>

SendParserErr(c) ==
  /\ Running
  /\ pc[RL(c)] = "perr"
  /\ sendLine(c)
  /\ CallClose(RL(c), c, "done")
  /\ arg' = [arg EXCEPT ![c] = NoArg]
  /\ UNCHANGED << conn, mu, sl, clients, subs, sidmap, atmr, ptmr, pout, ponged, opts, auth, pm,
                  written, wlog, closeDone, panicked, nops >>

\* processConnect: clears the auth timer (without the lock), decodes the
\* options (options that do not decode are an error returned to parse, the
\* timer cleared already), asks the Hub's checkAuth; an auth failure sends
\* -ERR 'Authorization is Required' and returns an error to parse.
ProcessConnect(c) ==
  /\ Running
  /\ Parsing(c)
  /\ atmr' = [atmr EXCEPT ![c] = FALSE]
  /\ \/ /\ MayFail
        /\ nfaults' = nfaults + 1
        /\ \E o \in {opts[c]} \cup ConnectOpts : opts' = [opts EXCEPT ![c] = o]
        /\ Goto(RL(c), "perr")
        /\ UNCHANGED << auth, arg, nops >>
     \/ /\ nops' = nops + 1
        /\ \E o \in ConnectOpts :
             /\ opts' = [opts EXCEPT ![c] = o]
             /\ \/ /\ MayFail
                   /\ nfaults' = nfaults + 1
                   /\ auth' = [auth EXCEPT ![c] = "failed"]
                   /\ arg' = [arg EXCEPT ![c] = [NoArg EXCEPT !.op = "CONNECT", !.err = TRUE]]
                   /\ Goto(RL(c), "co_autherr")
                \/ /\ auth' = [auth EXCEPT ![c] = "ok"]
                   /\ Goto(RL(c), IF o.verbose THEN "op_ret" ELSE "parse")
                   /\ UNCHANGED << arg, nfaults >>
  /\ UNCHANGED << conn, mu, bw, bwerr, sl, clients, subs, sidmap, pcd, ptmr, pout, ponged,
                  pm, ctgt, csubs, cret, written, wlog, closeDone, panicked >>

ConnectAuthErr(c) ==
  /\ Running
  /\ pc[RL(c)] = "co_autherr"
  /\ sendLine(c)
  /\ Goto(RL(c), "perr")
  /\ UNCHANGED << conn, mu, sl, clients, subs, sidmap, atmr, ptmr, pout, ponged, opts, auth, arg,
                  pm, ctgt, csubs, cret, written, wlog, closeDone, panicked, nops >>

\* The end of processConnect, processSub and processUnsub: +OK when verbose
\* (-ERR 'Invalid Subject' for a SUB the Index rejected), then back to parse.
OpReturn(c) ==
  /\ Running
  /\ pc[RL(c)] = "op_ret"
  /\ sendLine(c)
  /\ arg' = [arg EXCEPT ![c] = NoArg]
  /\ Goto(RL(c), "parse")
  /\ UNCHANGED << conn, mu, sl, clients, subs, sidmap, atmr, ptmr, pout, ponged, opts, auth, pm,
                  ctgt, csubs, cret, written, wlog, closeDone, panicked, nops >>

\* processPing, up to its unlocked test of c.conn.
ParsePing(c) ==
  /\ Running
  /\ Parsing(c)
  /\ nops' = nops + 1
  /\ Goto(RL(c), IF conn[c] THEN "ping" ELSE "parse")
  /\ UNCHANGED << conn, mu, bw, bwerr, sl, clients, subs, sidmap, pcd, atmr, ptmr,
                  pout, ponged, opts, auth, arg, pm, ctgt, csubs, cret, written, wlog, closeDone, panicked, nfaults >>

\* processPing under the lock: write PONG, Flush, clearConnection on error.
ProcessPing(c) ==
  /\ Running
  /\ pc[RL(c)] = "ping"
  /\ mu[c] = NoThread
  /\ \E w1 \in WriteOutcomes(W(c), conn[c], FALSE, FALSE, MayFail) :
       \E w2 \in FlushOutcomes(w1, conn[c], FALSE, MayFail) :
         IF w2.err # "nil"
         THEN /\ \E w3 \in clearConnection(c, w2) : SetWriter(c, w3)
              /\ conn' = [conn EXCEPT ![c] = FALSE]
         ELSE /\ SetWriter(c, w2)
              /\ UNCHANGED conn
  /\ Goto(RL(c), "parse")
  /\ UNCHANGED << mu, sl, clients, subs, sidmap, pcd, atmr, ptmr, pout, ponged, opts, auth, arg,
                  pm, ctgt, csubs, cret, written, wlog, closeDone, panicked, nops >>

\* processPong: one ping fewer outstanding.
ProcessPong(c) ==
  /\ Running
  /\ Parsing(c)
  /\ pout[c] > -MaxNegPout
  /\ mu[c] = NoThread
  /\ nops' = nops + 1
  /\ pout' = [pout EXCEPT ![c] = @ - 1]
  /\ ponged' = ponged \cup {c}
  /\ Goto(RL(c), "parse")
  /\ UNCHANGED << conn, mu, bw, bwerr, sl, clients, subs, sidmap, pcd, atmr, ptmr,
                  opts, auth, arg, pm, ctgt, csubs, cret, written, wlog, closeDone, panicked, nfaults >>

\* processSub: a new subscription object; under c.mu it is stored under its
\* sid and handed to the Index, which may reject its subject.
ProcessSub(c) ==
  /\ Running
  /\ Parsing(c)
  /\ Len(subs) < MaxSubs
  /\ mu[c] = NoThread
  /\ nops' = nops + 1
  /\ \E subject \in SubSubjects, queue \in Queues, sid \in Sids :
       LET s == Len(subs) + 1 IN
       /\ subs' = Append(subs, [client |-> c, subject |-> subject, queue |-> queue,
                                sid |-> sid, nm |-> 0, max |-> 0])
       /\ written' = Append(written, 0)
       /\ wlog' = Append(wlog, <<>>)
       /\ sidmap' = [sidmap EXCEPT ![c][sid] = s]
       /\ sl' = Insert(sl, subject, s)
       /\ arg' = [arg EXCEPT ![c] =
                    IF AfterOp(c, ~InsertOK(subject)) = "parse" THEN NoArg
                    ELSE [NoArg EXCEPT !.op = "SUB", !.subject = subject, !.sid = sid,
                                       !.sub = s, !.err = ~InsertOK(subject)]]
       /\ Goto(RL(c), AfterOp(c, ~InsertOK(subject)))
  /\ UNCHANGED << conn, mu, bw, bwerr, clients, pcd, atmr, ptmr, pout, ponged, opts, auth, pm,
                  ctgt, csubs, cret, closeDone, panicked, nfaults >>

\* processUnsub, up to the call of unsubscribe: looks the sid up and, for a
\* max > 0, stores it in the subscription; neither under the lock.
ProcessUnsub(c) ==
  /\ Running
  /\ Parsing(c)
  /\ nops' = nops + 1
  /\ \E sid \in Sids, max \in UnsubMaxes :
       LET s == sidmap[c][sid] IN
       /\ arg' = [arg EXCEPT ![c] =
                    IF s = 0 /\ AfterOp(c, FALSE) = "parse" THEN NoArg
                    ELSE [NoArg EXCEPT !.op = "UNSUB", !.sid = sid, !.max = max,
                                       !.sub = s]]
       /\ subs' = IF s # 0 /\ max > 0 THEN [subs EXCEPT ![s].max = max] ELSE subs
       /\ Goto(RL(c), IF s # 0 THEN "unsub" ELSE AfterOp(c, FALSE))
  /\ UNCHANGED << conn, mu, bw, bwerr, sl, clients, sidmap, pcd, atmr, ptmr, pout, ponged,
                  opts, auth, pm, ctgt, csubs, cret, written, wlog, closeDone, panicked, nfaults >>

\* processUnsub's call of unsubscribe.
UnsubUnsubscribe(c) ==
  /\ Running
  /\ pc[RL(c)] = "unsub"
  /\ unsubscribe(arg[c].sub)
  /\ Goto(RL(c), AfterOp(c, FALSE))
  /\ arg' = [arg EXCEPT ![c] = IF AfterOp(c, FALSE) = "parse" THEN NoArg ELSE @]
  /\ UNCHANGED << conn, mu, bw, bwerr, clients, subs, pcd, atmr, ptmr, pout, ponged, opts, auth,
                  pm, ctgt, csubs, cret, written, wlog, closeDone, panicked, nops, nfaults >>

\* processPub: the arguments are split (a bad split or size is ParseError);
\* a pedantic session is sent -ERR 'Invalid Subject' for a subject that is no
\* valid literal, and the publish goes on all the same.
ProcessPub(c) ==
  /\ Running
  /\ Parsing(c)
  /\ nops' = nops + 1
  /\ \E subject \in PubSubjects :
       /\ arg' = [arg EXCEPT ![c] = [NoArg EXCEPT !.op = "PUB", !.subject = subject,
                                                    !.id = nops + 1]]
       /\ IF opts[c].pedantic /\ ~IsValidLiteralSubject(subject)
          THEN /\ sendLine(c)
               /\ Goto(RL(c), "msg")
          ELSE /\ Goto(RL(c), "msg")
               /\ UNCHANGED << bw, bwerr, pcd, nfaults >>
  /\ UNCHANGED << conn, mu, sl, clients, subs, sidmap, atmr, ptmr, pout, ponged, opts, auth, pm,
                  ctgt, csubs, cret, written, wlog, closeDone, panicked >>

\* processMsg, first part: +OK when verbose.
ProcessMsg(c) ==
  /\ Running
  /\ pc[RL(c)] = "msg"
  /\ IF opts[c].verbose THEN sendLine(c) ELSE UNCHANGED << bw, bwerr, pcd, nfaults >>
  /\ Goto(RL(c), "pm_match")
  /\ UNCHANGED << conn, mu, sl, clients, subs, sidmap, atmr, ptmr, pout, ponged, opts, auth, arg,
                  pm, ctgt, csubs, cret, written, wlog, closeDone, panicked, nops >>

\* The queue subscriptions of a match result, grouped by queue name.
qmapOf(r) ==
  [q \in { subs[r[i]].queue : i \in { j \in 1..Len(r) : subs[r[j]].queue # "" } } |->
     SelectSeq(r, LAMBDA x : subs[x].queue = q)]

\* processMsg: r := sl.Match(subject); nothing more for an empty result.
ProcessMsgMatch(c) ==
  /\ Running
  /\ pc[RL(c)] = "pm_match"
  /\ LET r == Match(sl, arg[c].subject) IN
       IF Len(r) = 0
       THEN /\ Goto(RL(c), "parse")
            /\ UNCHANGED pm
       ELSE /\ Goto(RL(c), "pm_loop")
            /\ pm' = [pm EXCEPT ![c] = [NoMsg EXCEPT
                        !.r = SelectSeq(r, LAMBDA x : subs[x].queue = ""),
                        !.qmap = qmapOf(r),
                        !.id = arg[c].id,
                        !.subject = arg[c].subject,
                        !.plain = { x \in Range(r) : subs[x].queue = "" }]]
  /\ arg' = [arg EXCEPT ![c] = NoArg]
  /\ UNCHANGED << conn, mu, bw, bwerr, sl, clients, subs, sidmap, pcd, atmr, ptmr,
                  pout, ponged, opts, auth, ctgt, csubs, cret, written, wlog, closeDone, panicked, nops, nfaults >>

\* The range over qmap moves on: the queue name just served is done.
visitedNone(qmap, q) == qmap
visited(qmap, q) == [x \in (DOMAIN qmap) \ {q} |-> qmap[x]]

\* processMsg's two loops: the next plain subscription of r, then for each
\* queue name (in map order, any) the member rand.Int() picks; deliverMsg
\* starts with its unlocked test of the target's conn.
ProcessMsgNext(c) ==
  /\ Running
  /\ pc[RL(c)] = "pm_loop"
  /\ IF pm[c].r # <<>>
     THEN LET s == Head(pm[c].r) IN
          /\ pm' = [pm EXCEPT ![c].r = Tail(@), ![c].sub = s]
          /\ Goto(RL(c), IF conn[subs[s].client] THEN "dm_lock" ELSE "pm_loop")
     ELSE IF DOMAIN pm[c].qmap # {}
     THEN \E q \in DOMAIN pm[c].qmap : \E index \in 1..Len(pm[c].qmap[q]) :
            LET s == pm[c].qmap[q][index] IN
            /\ pm' = [pm EXCEPT ![c].qmap = visited(@, q),
                                ![c].sub = s,
                                ![c].picked = @ \cup {s}]
            /\ Goto(RL(c), IF conn[subs[s].client] THEN "dm_lock" ELSE "pm_loop")
     ELSE /\ pm' = [pm EXCEPT ![c] = NoMsg]
          /\ Goto(RL(c), "parse")
  /\ UNCHANGED << conn, mu, bw, bwerr, sl, clients, subs, sidmap, pcd, atmr, ptmr,
                  pout, ponged, opts, auth, arg, ctgt, csubs, cret, written, wlog, closeDone, panicked, nops, nfaults >>

\* msgHeader: "MSG subject" is followed by the sid of the subscription (and
\* the reply and size of the publish, which the model leaves out).
msgHeaderNoSid(subject, s) == <<subject, 0>>
msgHeader(subject, s) == <<subject, subs[s].sid>>

\* bw.Write of a MSG: the line goes behind what the writer already took.
bufWritePrepend(buf, line) == <<line>> \o buf
bufWrite(buf, line) == Append(buf, line)

\* Whether deliverMsg, having counted this delivery, drops it and unsubscribes.
maxExceededOffByOne(max, nm) == max > 0 /\ nm > max + 1
maxExceeded(max, nm) == max > 0 /\ nm > max

\* deliverMsg under the target's lock: count the delivery; past max, unlock and
\* go to unsubscribe; else write header, payload and CR_LF (with a write
\* deadline when the write will flush; setting it on a nil conn panics, the
\* delivery counted and the lock held).  Written: the lock is released and the
\* target is about to join the publisher's pending-flush set.  A timeout: the
\* target is a slow consumer and is closed.  Another error: logged.
DeliverMsg(c) ==
  /\ Running
  /\ pc[RL(c)] = "dm_lock"
  /\ LET s == pm[c].sub
         client == subs[s].client
     IN
     /\ mu[client] = NoThread
     /\ subs' = [subs EXCEPT ![s].nm = @ + 1]
     /\ IF maxExceeded(subs[s].max, subs[s].nm + 1)
        THEN /\ Goto(RL(c), "dm_unsub")
             /\ UNCHANGED << mu, panicked, bw, bwerr, nfaults, written, wlog, pm, ctgt, csubs, cret >>
        ELSE \E w \in WriteOutcomes(W(client), conn[client], TRUE, TRUE, MayFail) :
               IF w.err = "panic"
               THEN /\ mu' = [mu EXCEPT ![client] = RL(c)]
                    /\ panicked' = TRUE
                    /\ Goto(RL(c), "panic")
                    /\ UNCHANGED << bw, bwerr, nfaults, written, wlog, pm, ctgt, csubs, cret >>
               ELSE /\ SetWriter(client, w)
                    /\ UNCHANGED << mu, panicked >>
                    /\ IF w.err = "nil"
                       THEN /\ written' = [written EXCEPT ![s] = @ + 1]
                            /\ wlog' = [wlog EXCEPT ![s] =
                                         bufWrite(@, <<c, pm[c].id>> \o msgHeader(pm[c].subject, s))]
                            /\ pm' = [pm EXCEPT ![c].got = @ \cup {s}]
                            /\ Goto(RL(c), "dm_pcd")
                            /\ UNCHANGED << ctgt, csubs, cret >>
                       ELSE IF w.err = "timeout"
                       THEN /\ CallClose(RL(c), client, "pm_loop")
                            /\ UNCHANGED << written, wlog, pm >>
                       ELSE /\ Goto(RL(c), "pm_loop")
                            /\ UNCHANGED << written, wlog, pm, ctgt, csubs, cret >>
  /\ UNCHANGED << conn, sl, clients, sidmap, pcd, atmr, ptmr, pout, ponged, opts, auth, arg,
                  closeDone, nops >>

\* deliverMsg's last statement, the target's lock released: the target joins
\* the publisher's pending-flush set.
DeliverMark(c) ==
  /\ Running
  /\ \/ pc[RL(c)] = "dm_pcd" /\ PcdAbort(c)
     \/ /\ pc[RL(c)] = "dm_pcd"
        /\ pcd' = [pcd EXCEPT ![c] = @ \cup {subs[pm[c].sub].client}]
        /\ Goto(RL(c), "pm_loop")
        /\ UNCHANGED << conn, mu, bw, bwerr, sl, clients, subs, sidmap, atmr, ptmr, pout, ponged,
                        opts, auth, arg, pm, ctgt, csubs, cret, written, wlog, closeDone, panicked, nops, nfaults >>

\* deliverMsg's call of unsubscribe for a subscription past its max.
DeliverUnsubscribe(c) ==
  /\ Running
  /\ pc[RL(c)] = "dm_unsub"
  /\ unsubscribe(pm[c].sub)
  /\ Goto(RL(c), "pm_loop")
  /\ UNCHANGED << conn, mu, bw, bwerr, clients, subs, pcd, atmr, ptmr, pout, ponged, opts, auth,
                  arg, pm, ctgt, csubs, cret, written, wlog, closeDone, panicked, nops, nfaults >>

\* ------------------------------------------------------- closeConnection
\* The unlocked test at its top: nothing to do for a cleared connection.
closeEnters(c) == conn[c]

CloseCheck(t) ==
  /\ Running
  /\ pc[t] = "cc_check"
  /\ Goto(t, IF closeEnters(ctgt[t]) THEN "cc_lock" ELSE cret[t])
  /\ UNCHANGED << conn, mu, bw, bwerr, sl, clients, subs, sidmap, pcd, atmr, ptmr,
                  pout, ponged, opts, auth, arg, pm, ctgt, csubs, cret, written, wlog, closeDone, panicked, nops,
                  nfaults >>

\* c.subs.All(): the subscriptions the sid-map holds.
All(c) == { sidmap[c][sid] : sid \in Sids } \ {0}

\* The Hub's removeClient: the session leaves the registry.
removeClient(c) == clients \ {c}

\* Under the lock: stop both timers, clearConnection, snapshot the sid-map.
CloseLocked(t) ==
  /\ Running
  /\ pc[t] = "cc_lock"
  /\ LET c == ctgt[t] IN
     /\ mu[c] = NoThread
     /\ atmr' = [atmr EXCEPT ![c] = FALSE]
     /\ ptmr' = [ptmr EXCEPT ![c] = FALSE]
     /\ \E w \in clearConnection(c, W(c)) : SetWriter(c, w)
     /\ conn' = [conn EXCEPT ![c] = FALSE]
     /\ csubs' = [csubs EXCEPT ![t] = All(c)]
     /\ Goto(t, "cc_unreg")
  /\ UNCHANGED << mu, sl, clients, subs, sidmap, pcd, pout, ponged, opts, auth, arg, pm, ctgt,
                  cret, written, wlog, closeDone, panicked, nops >>

\* The lock released: removeClient, under the Hub's own lock.
CloseUnregister(t) ==
  /\ Running
  /\ pc[t] = "cc_unreg"
  /\ clients' = removeClient(ctgt[t])
  /\ IF csubs[t] = {}
     THEN /\ Goto(t, cret[t])
          /\ closeDone' = closeDone \cup {ctgt[t]}
     ELSE /\ Goto(t, "cc_remove")
          /\ UNCHANGED closeDone
  /\ UNCHANGED << conn, mu, bw, bwerr, sl, subs, sidmap, pcd, atmr, ptmr, pout, ponged, opts,
                  auth, arg, pm, ctgt, csubs, cret, written, wlog, panicked, nops, nfaults >>

\* The loop over the snapshot: each subscription is removed from the Index.
CloseRemove(t) ==
  /\ Running
  /\ pc[t] = "cc_remove"
  /\ \E s \in csubs[t] :
       /\ sl' = Remove(sl, s)
       /\ csubs' = [csubs EXCEPT ![t] = @ \ {s}]
       /\ IF csubs[t] = {s}
          THEN /\ Goto(t, cret[t])
               /\ closeDone' = closeDone \cup {ctgt[t]}
          ELSE UNCHANGED << pc, closeDone >>
  /\ UNCHANGED << conn, mu, bw, bwerr, clients, subs, sidmap, pcd, atmr, ptmr, pout, ponged,
                  opts, auth, arg, pm, ctgt, cret, written, wlog, panicked, nops, nfaults >>

\* ------------------------------------------------------ the batched flush
\* The read loop is at its loop over c.pcd: parse has used the slice up, or a
\* pass of the loop has ended.
Flushing(c) == pc[RL(c)] \in {"parse", "flush"}

\* One pass of readLoop's loop over c.pcd, up to the unlock: lock the peer,
\* flush its writer under a write deadline if its conn is set, unlock.  On a
\* flush error the loop calls cp.closeConnection() with cp.mu still held, and
\* unlocks when that returns.
FlushPeer(c) ==
  /\ Running
  /\ \/ Flushing(c) /\ PcdAbort(c)
     \/ /\ Flushing(c) \/ pc[RL(c)] = "fl_unlock"
        /\ IF pc[RL(c)] = "fl_unlock"
           THEN /\ mu' = [mu EXCEPT ![ctgt[RL(c)]] = NoThread]
                /\ Goto(RL(c), "fl_del")
                /\ UNCHANGED << bw, bwerr, nfaults, ctgt, csubs, cret >>
           ELSE \E cp \in pcd[c] :
                  /\ mu[cp] = NoThread
                  /\ IF conn[cp]
                     THEN \E w \in FlushOutcomes(W(cp), TRUE, TRUE, MayFail) :
                            /\ SetWriter(cp, w)
                            /\ IF w.err # "nil"
                               THEN /\ mu' = [mu EXCEPT ![cp] = RL(c)]
                                    /\ CallClose(RL(c), cp, "fl_unlock")
                               ELSE /\ ctgt' = [ctgt EXCEPT ![RL(c)] = cp]
                                    /\ Goto(RL(c), "fl_del")
                                    /\ UNCHANGED << mu, csubs, cret >>
                     ELSE /\ ctgt' = [ctgt EXCEPT ![RL(c)] = cp]
                          /\ Goto(RL(c), "fl_del")
                          /\ UNCHANGED << mu, bw, bwerr, nfaults, csubs, cret >>
        /\ UNCHANGED << conn, sl, clients, subs, sidmap, pcd, atmr, ptmr, pout, ponged, opts, auth,
                        arg, pm, written, wlog, closeDone, panicked, nops >>

\* The end of the pass, the peer's lock released: delete(c.pcd, cp).
FlushDelete(c) ==
  /\ Running
  /\ \/ pc[RL(c)] = "fl_del" /\ PcdAbort(c)
     \/ /\ pc[RL(c)] = "fl_del"
        /\ pcd' = [pcd EXCEPT ![c] = @ \ {ctgt[RL(c)]}]
        /\ Goto(RL(c), "flush")
        /\ UNCHANGED << conn, mu, bw, bwerr, sl, clients, subs, sidmap, atmr, ptmr, pout, ponged,
                        opts, auth, arg, pm, ctgt, csubs, cret, written, wlog, closeDone, panicked, nops, nfaults >>

\* The set is empty: the loop returns if it got closed, else reads again.
LoopCheck(c) ==
  /\ Running
  /\ \/ Flushing(c) /\ PcdAbort(c)
     \/ /\ Flushing(c)
        /\ pcd[c] = {}
        /\ Goto(RL(c), IF conn[c] THEN "read" ELSE "done")
        /\ UNCHANGED << conn, mu, bw, bwerr, sl, clients, subs, sidmap, pcd, atmr, ptmr,
                        pout, ponged, opts, auth, arg, pm, ctgt, csubs, cret, written, wlog, closeDone, panicked, nops,
                        nfaults >>

\* -------------------------------------------------------------- the timers
\* The ping timer expires: its callback starts (and waits for c.mu).
PingTimerFire(c) ==
  /\ Running
  /\ ptmr[c]
  /\ pc[PT(c)] = "idle"
  /\ MayFail
  /\ nfaults' = nfaults + 1
  /\ Goto(PT(c), "fired")
  /\ UNCHANGED << conn, mu, bw, bwerr, sl, clients, subs, sidmap, pcd, atmr, ptmr,
                  pout, ponged, opts, auth, arg, pm, ctgt, csubs, cret, written, wlog, closeDone, panicked, nops >>

\* The session has more pings outstanding than the Hub allows.
staleOnePingLate(p) == p > MaxPingsOut + 1
stale(p) == p > MaxPingsOut

\* processPingTimer, all of it under c.mu.
ProcessPingTimer(c) ==
  /\ Running
  /\ pc[PT(c)] = "fired"
  /\ mu[c] = NoThread
  /\ IF ~conn[c]
     THEN /\ ptmr' = [ptmr EXCEPT ![c] = FALSE]
          /\ UNCHANGED << conn, bw, bwerr, pout, nfaults >>
     ELSE /\ pout' = [pout EXCEPT ![c] = @ + 1]
          /\ \E w1 \in WriteOutcomes(W(c), TRUE, FALSE, FALSE, MayFail) :
               \E w2 \in FlushOutcomes(w1, TRUE, FALSE, MayFail) :
                 IF stale(pout[c] + 1) \/ w2.err # "nil"
                 THEN /\ \E w3 \in clearConnection(c, w2) : SetWriter(c, w3)
                      /\ conn' = [conn EXCEPT ![c] = FALSE]
                      /\ ptmr' = [ptmr EXCEPT ![c] = FALSE]
                 ELSE /\ SetWriter(c, w2)
                      /\ ptmr' = [ptmr EXCEPT ![c] = TRUE]
                      /\ UNCHANGED conn
  /\ Goto(PT(c), "idle")
  /\ UNCHANGED << ponged, mu, sl, clients, subs, sidmap, pcd, atmr, opts, auth, arg, pm, ctgt,
                  csubs, cret, written, wlog, closeDone, panicked, nops >>

\* The auth timer expires: authViolation starts.
AuthTimerFire(c) ==
  /\ Running
  /\ atmr[c]
  /\ pc[AT(c)] = "idle"
  /\ MayFail
  /\ nfaults' = nfaults + 1
  /\ Goto(AT(c), "av_send")
  /\ UNCHANGED << conn, mu, bw, bwerr, sl, clients, subs, sidmap, pcd, atmr, ptmr,
                  pout, ponged, opts, auth, arg, pm, ctgt, csubs, cret, written, wlog, closeDone, panicked, nops >>

\* authViolation: -ERR 'Authorization is Required', then closeConnection.
\* sendErr writes the map c.pcd under c.mu from the timer's goroutine; when
\* the read loop is at an unlocked access of the same map the two race, and
\* besides either order the Go runtime may end the process (concurrent map
\* writes).
AuthViolation(c) ==
  /\ Running
  /\ pc[AT(c)] = "av_send"
  /\ \/ /\ sendLine(c)
        /\ CallClose(AT(c), c, "done")
        /\ UNCHANGED panicked
     \/ /\ PcdUnlocked(c)
        /\ mu[c] = NoThread
        /\ panicked' = TRUE
        /\ Goto(AT(c), "panic")
        /\ UNCHANGED << bw, bwerr, pcd, nfaults, ctgt, csubs, cret >>
  /\ UNCHANGED << conn, mu, sl, clients, subs, sidmap, atmr, ptmr, pout, ponged, opts, auth, arg,
                  pm, written, wlog, closeDone, nops >>

\* ------------------------------------------------------- the specification
Next ==
  \/ \E c \in Clients :
       \/ ReadSlice(c)
       \/ ReadErr(c)
       \/ ParseError(c)
       \/ SendParserErr(c)
       \/ ProcessConnect(c)
       \/ ConnectAuthErr(c)
       \/ OpReturn(c)
       \/ ParsePing(c)
       \/ ProcessPing(c)
       \/ ProcessPong(c)
       \/ ProcessSub(c)
       \/ ProcessUnsub(c)
       \/ UnsubUnsubscribe(c)
       \/ ProcessPub(c)
       \/ ProcessMsg(c)
       \/ ProcessMsgMatch(c)
       \/ ProcessMsgNext(c)
       \/ DeliverMsg(c)
       \/ DeliverMark(c)
       \/ DeliverUnsubscribe(c)
       \/ FlushPeer(c)
       \/ FlushDelete(c)
       \/ LoopCheck(c)
       \/ PingTimerFire(c)
       \/ ProcessPingTimer(c)
       \/ AuthTimerFire(c)
       \/ AuthViolation(c)
  \/ \E t \in Threads :
       \/ CloseCheck(t)
       \/ CloseLocked(t)
       \/ CloseUnregister(t)
       \/ CloseRemove(t)

Spec == Init /\ [][Next]_vars

\* The same program picked up later in a run: session 1 has subscribed to foo
\* (+OK sent and flushed), its conn.Read has then failed and its read loop is
\* in closeConnection, past the unlocked test.  The events are counted from
\* here.
InitClosing ==
  /\ conn = [c \in Clients |-> TRUE]
  /\ mu = [c \in Clients |-> NoThread]
  /\ bw = [c \in Clients |-> FALSE]
  /\ bwerr = [c \in Clients |-> "nil"]
  /\ sl = <<1>>
  /\ clients = Clients
  /\ subs = << [client |-> 1, subject |-> <<"foo">>, queue |-> "", sid |-> 1,
                nm |-> 0, max |-> 0] >>
  /\ sidmap = [c \in Clients |-> [sid \in Sids |-> IF c = 1 /\ sid = 1 THEN 1 ELSE 0]]
  /\ pcd = [c \in Clients |-> {}]
  /\ atmr = [c \in Clients |-> TRUE]
  /\ ptmr = [c \in Clients |-> TRUE]
  /\ pout = [c \in Clients |-> 0]
  /\ ponged = {}
  /\ opts = [c \in Clients |-> defaultOpts]
  /\ auth = [c \in Clients |-> ""]
  /\ pc = [t \in Threads |-> IF t = RL(1) THEN "cc_lock"
                              ELSE IF t[1] = "rl" THEN "read" ELSE "idle"]
  /\ arg = [c \in Clients |-> NoArg]
  /\ pm = [c \in Clients |-> NoMsg]
  /\ ctgt = [t \in Threads |-> IF t = RL(1) THEN 1 ELSE 0]
  /\ csubs = [t \in Threads |-> {}]
  /\ cret = [t \in Threads |-> IF t = RL(1) THEN "done" ELSE ""]
  /\ written = <<0>>
  /\ wlog = << <<>> >>
  /\ closeDone = {}
  /\ panicked = FALSE
  /\ nops = 0
  /\ nfaults = 0

SpecClosing == InitClosing /\ [][Next]_vars

\* ------------------------------------------------------------ the claims
SubIds == 1..Len(subs)
Owner(s) == subs[s].client
InSidmap(s) == sidmap[Owner(s)][subs[s].sid] = s
Literals == { subject \in PubSubjects : IsValidLiteralSubject(subject) }
Matched(subject) == Range(Match(sl, subject))

\* A thread is inside closeConnection for session c.
Closing(t, c) == pc[t] \in {"cc_check", "cc_lock", "cc_unreg", "cc_remove"} /\ ctgt[t] = c

\* Session c has terminated: its connection is cleared, its read loop has
\* returned and no context is still closing it or about to.
Terminated(c) ==
  /\ ~conn[c]
  /\ pc[RL(c)] = "done"
  /\ pc[AT(c)] # "av_send"
  /\ \A t \in Threads : ~Closing(t, c)

\* An unsubscribe of s has been decided and not yet run.
PendingUnsub(s) ==
  \E c \in Clients :
    \/ pc[RL(c)] = "dm_unsub" /\ pm[c].sub = s
    \/ pc[RL(c)] = "unsub" /\ arg[c].sub = s

\* C1: once a closeConnection has run to its end for a session, Match returns
\* none of that session's subscriptions, on any subject.
C1_NoMatchAfterClose ==
  \A c \in closeDone : \A subject \in Literals :
    \A s \in Matched(subject) : Owner(s) # c

\* C2: a session that has terminated, in whatever way, is out of the Hub
\* registry and owns no subscription of the Index.
C2_TerminatedIsRemoved ==
  \A c \in Clients :
    Terminated(c) => /\ c \notin clients
                     /\ \A s \in Range(sl) : Owner(s) # c

\* C3 as stated: a subscription whose max is set has at most max MSG lines
\* written for it, whenever the max was set.
C3_WrittenAtMostMax ==
  \A s \in SubIds : subs[s].max > 0 => written[s] <= subs[s].max

\* C3 as amended: no MSG is written for a subscription with a max in force
\* that takes its total above max.
C3_NoWritePastMax ==
  [][\A s \in DOMAIN written :
       (written'[s] > written[s] /\ subs'[s].max > 0) => written'[s] <= subs'[s].max]_vars

\* C3's case: a subscription has had its max deliveries written and a further
\* delivery to it has been counted and refused.
C3_Witness ==
  \E s \in SubIds :
    subs[s].max > 0 /\ written[s] = subs[s].max /\ subs[s].nm > subs[s].max

\* The publish c is processing has been offered to every recipient.
PublishDone(c) ==
  pc[RL(c)] = "pm_loop" /\ pm[c].r = <<>> /\ DOMAIN pm[c].qmap = {}

GroupGot(c, q) == { x \in pm[c].got : subs[x].queue = q }

\* C4 as stated: of every queue group a publish matched, exactly one member
\* has received the message when the publish is done.
C4_ExactlyOnePerGroup ==
  \A c \in Clients :
    PublishDone(c) =>
      \A s \in pm[c].picked : Cardinality(GroupGot(c, subs[s].queue)) = 1

\* C4 as amended: of a queue group at most one member receives a publish, and
\* only the member picked; the member picked does receive it when its session
\* is open, its writer has not failed and no max is set on it.
C4_AtMostOnePerGroup ==
  \A c \in Clients :
    /\ \A q \in Queues \ {""} :
         /\ Cardinality(GroupGot(c, q)) <= 1
         /\ GroupGot(c, q) \subseteq pm[c].picked
    /\ PublishDone(c) =>
         \A s \in pm[c].picked :
           (conn[Owner(s)] /\ bwerr[Owner(s)] = "nil" /\ subs[s].max = 0)
             => s \in pm[c].got

\* C4's case: a publish matched a group of two members, one was picked and
\* has received the message, the other has not.
C4_Witness ==
  \E c \in Clients : \E s \in pm[c].got : \E x \in SubIds :
    /\ PublishDone(c)
    /\ x # s
    /\ subs[s].queue # ""
    /\ subs[x].queue = subs[s].queue
    /\ InIndex(x)
    /\ x \notin pm[c].got

\* C5: a read loop whose batched flush of another session failed closes that
\* session and goes on: it is never left waiting for a mutex it holds itself.
C5_FlushFailureDoesNotBlock ==
  \A c \in Clients :
    (pc[RL(c)] = "cc_lock" /\ cret[RL(c)] = "fl_unlock" /\ ctgt[RL(c)] # c)
      => mu[ctgt[RL(c)]] # RL(c)

\* C6: when the unsubscribe of an UNSUB without a max (or with max <= 0) on an
\* existing sid has run, the subscription is in neither the Index nor the
\* sid-map.
C6_UnsubRemovesAtOnce ==
  \A c \in Clients :
    (pc[RL(c)] = "op_ret" /\ arg[c].op = "UNSUB" /\ arg[c].sub # 0 /\ arg[c].max <= 0)
      => /\ ~InIndex(arg[c].sub)
         /\ sidmap[c][arg[c].sid] # arg[c].sub

\* Every read loop is waiting in conn.Read or has returned.
Quiet == \A c \in Clients : pc[RL(c)] \in {"read", "done"}

\* C7 as stated: once max messages have been delivered for a subscription with
\* max > 0, it is absent from the Index and from the sid-map.
C7_AbsentAfterMax ==
  \A s \in SubIds :
    (Quiet /\ subs[s].max > 0 /\ written[s] >= subs[s].max)
      => ~InIndex(s) /\ ~InSidmap(s)

\* C7 as amended: a subscription with max > 0 whose session is open leaves the
\* Index only once its delivery counter is past max, that is in the delivery
\* attempted after the max-th (or in an UNSUB that sets max below the counter).
C7_RemovedOnlyPastMax ==
  [][\A s \in SubIds :
       (InIndex(s) /\ ~InIndex(s)' /\ subs[s].max > 0 /\ conn[Owner(s)])
         => subs[s].nm > subs[s].max]_vars

\* C7's case: max deliveries were written, one more was attempted, and the
\* subscription is gone from the Index and the sid-map of its open session.
C7_Witness ==
  \E s \in SubIds :
    /\ subs[s].max > 0
    /\ written[s] = subs[s].max
    /\ subs[s].nm = subs[s].max + 1
    /\ conn[Owner(s)]
    /\ ~InIndex(s)
    /\ sidmap[Owner(s)][subs[s].sid] = 0

\* C8 as stated: a subscription with max > 0 has nm <= max.
C8_CounterAtMostMax ==
  \A s \in SubIds : subs[s].max > 0 => subs[s].nm <= subs[s].max

\* C8 as amended: a subscription with max > 0 that is still in the Index or
\* under its sid in the sid-map has nm <= max, unless the unsubscribe that
\* removes it is pending in the context that found nm past max.
C8_InstalledWithinMax ==
  \A s \in SubIds :
    (subs[s].max > 0 /\ (InIndex(s) \/ InSidmap(s)) /\ ~PendingUnsub(s))
      => subs[s].nm <= subs[s].max

\* C8's case: a delivery has taken the counter past max and the subscription,
\* still in the Index, is about to be removed.
C8_Witness ==
  \E s \in SubIds :
    subs[s].max > 0 /\ subs[s].nm > subs[s].max /\ InIndex(s) /\ PendingUnsub(s)

\* C9: every subscription in a sid-map is in the Index, and Match on a literal
\* subject its pattern matches returns it.
C9_SidmapInIndex ==
  \A c \in Clients : \A sid \in Sids :
    LET s == sidmap[c][sid] IN
    s # 0 => /\ InIndex(s)
             /\ \A subject \in Literals :
                  matchLevel(subs[s].subject, subject) => s \in Matched(subject)

\* C10: every subscription the Index holds is the entry under its sid in its
\* owner's sid-map.
C10_IndexInSidmap ==
  \A s \in Range(sl) : InSidmap(s)

\* C11: the MSG lines one publisher's publishes put into a subscription's
\* writer are in the order the publisher submitted them, whatever other
\* publishers write in between.
C11_PublisherOrder ==
  \A s \in SubIds : \A i, j \in 1..Len(wlog[s]) :
    (i < j /\ wlog[s][i][1] = wlog[s][j][1]) => wlog[s][i][2] < wlog[s][j][2]

\* C11's case: a subscription has been written two publishes of one publisher
\* and a publish of another.
C11_Witness ==
  \E s \in SubIds : \E i, j, k \in 1..Len(wlog[s]) :
    /\ i < j
    /\ wlog[s][i][1] = wlog[s][j][1]
    /\ wlog[s][k][1] # wlog[s][i][1]

\* C12: while a session's read loop is at (or blocked in) conn.Read, the
\* session's pending-flush set is empty.
C12_PcdEmptyAtRead ==
  \A c \in Clients : pc[RL(c)] = "read" => pcd[c] = {}

\* C13: once a publisher's read loop is done with a slice (it is back at
\* conn.Read, or has returned), no other session it delivered to while handling
\* the slice is left open with un-flushed data in its writer.
C13_DeliveredIsFlushed ==
  \A c \in Clients :
    pc[RL(c)] \in {"read", "done"} =>
      \A cp \in pcd[c] \ {c} : ~conn[cp] \/ ~bw[cp]

\* The ping timer of c is between two firings (no callback is running).
PingIdle(c) == pc[PT(c)] = "idle"

\* C14 as stated: a session that has sent no PONG has its connection cleared
\* by the MaxPingsOut-th firing of its ping timer.
C14_StaleAtMaxPingsOut ==
  \A c \in Clients :
    (c \notin ponged /\ PingIdle(c) /\ pout[c] >= MaxPingsOut) => ~conn[c]

\* C14 as amended: a session that has sent no PONG has its connection cleared
\* by firing MaxPingsOut + 1 of its ping timer, the first to find more than
\* MaxPingsOut pings outstanding; no further firing counts.
C14_StaleAfterMaxPingsOut ==
  \A c \in Clients :
    (c \notin ponged /\ PingIdle(c)) =>
      /\ pout[c] <= MaxPingsOut + 1
      /\ pout[c] > MaxPingsOut => ~conn[c] /\ ~ptmr[c]

\* C14's case: a session sent no PONG, its ping timer fired MaxPingsOut + 1
\* times and its connection is cleared.
C14_Witness ==
  \E c \in Clients :
    c \notin ponged /\ PingIdle(c) /\ pout[c] = MaxPingsOut + 1 /\ ~conn[c]

\* The MSG lines of the publish c is processing that subscription s was written.
MsgsOf(c, s) == { i \in 1..Len(wlog[s]) : wlog[s][i][1] = c /\ wlog[s][i][2] = pm[c].id }

\* C15 as stated: when a publish is done, every plain subscription of the
\* match whose session is open and whose max is not exhausted was written
\* exactly one MSG, and every MSG written is one to a subscription whose
\* pattern matches the subject, under that subscription's sid.
C15_PlainAllReceive ==
  /\ \A c \in Clients :
       PublishDone(c) =>
         \A s \in pm[c].plain :
           (conn[Owner(s)] /\ (subs[s].max = 0 \/ subs[s].nm <= subs[s].max))
             => Cardinality(MsgsOf(c, s)) = 1
  /\ \A s \in SubIds : \A i \in 1..Len(wlog[s]) :
       wlog[s][i][4] = subs[s].sid /\ matchLevel(subs[s].subject, wlog[s][i][3])

\* C15 as amended: every MSG written is one to a subscription whose pattern
\* matches the subject, under that subscription's sid, and at most one per
\* publish; when a publish is done, every plain subscription of the match
\* whose session is open, whose writer has not failed and which has no max
\* set was written exactly one.
C15_PlainReceiveIfWritable ==
  /\ \A c \in Clients :
       /\ \A s \in SubIds : Cardinality(MsgsOf(c, s)) <= 1
       /\ PublishDone(c) =>
            \A s \in pm[c].plain :
              (conn[Owner(s)] /\ bwerr[Owner(s)] = "nil" /\ subs[s].max = 0)
                => Cardinality(MsgsOf(c, s)) = 1
  /\ \A s \in SubIds : \A i \in 1..Len(wlog[s]) :
       wlog[s][i][4] = subs[s].sid /\ matchLevel(subs[s].subject, wlog[s][i][3])

\* C15's case: a publish is done that two plain subscriptions matched and
\* both were written its MSG.
C15_Witness ==
  \E c \in Clients : \E s, x \in pm[c].plain :
    /\ PublishDone(c)
    /\ s # x
    /\ Cardinality(MsgsOf(c, s)) = 1
    /\ Cardinality(MsgsOf(c, x)) = 1

\* Thread t takes a step of a closeConnection for session c.
CloseStep(t, c) ==
  /\ Closing(t, c)
  /\ pc'[t] # pc[t] \/ csubs'[t] # csubs[t]

\* The state of session c that closing it is about.
SessionState(c) == << conn[c], bw[c], bwerr[c], atmr[c], ptmr[c], pout[c], pcd[c], sidmap[c] >>

\* C16: CLOSED is terminal and idempotent.  A cleared connection stays
\* cleared, clearConnection does nothing on it, and a closeConnection that
\* reaches its locked part on a session already cleared (a further call,
\* concurrent with what cleared it) leaves the Index, the registry and the
\* session's state as they are.
C16_FurtherCloseChangesNothing ==
  [][\A c \in Clients :
       ~conn[c] =>
         /\ ~conn'[c]
         /\ clearConnection(c, W(c)) = {W(c)}
         /\ \A t \in Threads :
              (CloseStep(t, c) /\ pc[t] \in {"cc_check", "cc_lock"})
                => /\ sl' = sl
                   /\ clients' = clients
                   /\ SessionState(c)' = SessionState(c)]_vars

\* The read loop of c is on its way out after an error from parse: sending
\* the -ERR lines, closing, or returned.
GoingDown(c) ==
  pc[RL(c)] \in {"co_autherr", "perr", "cc_check", "cc_lock", "cc_unreg", "cc_remove", "done"}

\* After a CONNECT that checkAuth refused: the read loop handles no further
\* operation (so sends no +OK), -ERR 'Authorization is Required' has gone into
\* the session's writer once processConnect has returned, and the loop returns
\* with the connection cleared.
AuthFailureCloses ==
  \A c \in Clients :
    auth[c] = "failed" =>
      /\ GoingDown(c)
      /\ pc[RL(c)] # "co_autherr" => c \in pcd[c]
      /\ pc[RL(c)] = "done" => ~conn[c]

\* C17 as stated: a refused CONNECT gets -ERR, no +OK, and the session ends
\* CLOSED; after a CONNECT that passed, no authViolation closes the session.
C17_ConnectAuth ==
  /\ []AuthFailureCloses
  /\ [][\A c \in Clients :
          auth[c] = "ok" => ~(pc[AT(c)] = "av_send" /\ pc'[AT(c)] # "av_send")]_vars

\* What processConnect does guarantee: a refused CONNECT gets -ERR, no +OK,
\* and the session ends CLOSED; after a CONNECT that passed, the auth timer is
\* not armed and does not fire (an authViolation whose timer fired before the
\* CONNECT was processed may still run).
ConnectStopsAuthTimer ==
  /\ []AuthFailureCloses
  /\ [](\A c \in Clients : auth[c] = "ok" => ~atmr[c])
  /\ [][\A c \in Clients :
          auth[c] = "ok" => ~(pc[AT(c)] = "idle" /\ pc'[AT(c)] # "idle")]_vars

\* Both outcomes of CONNECT: one session's CONNECT was refused and its read loop has closed
\* the connection and returned; another session's CONNECT passed and it is
\* open.
ConnectBothOutcomes ==
  \E c, d \in Clients :
    /\ auth[c] = "failed" /\ pc[RL(c)] = "done" /\ ~conn[c] /\ c \in closeDone
    /\ auth[d] = "ok" /\ conn[d]

\* The body of a timer callback of c runs: authViolation's sendErr, or
\* processPingTimer.
TimerCallbackStep(c) ==
  \/ pc[AT(c)] = "av_send" /\ pc'[AT(c)] # "av_send"
  \/ pc[PT(c)] = "fired" /\ pc'[PT(c)] # "fired"

\* What a timer callback can touch of its session: the writer, the
\* pending-flush set, the ping counter, the two timers.
TimerState(c) == << bw[c], bwerr[c], pcd[c], pout[c], ptmr[c], atmr[c] >>

\* C18: a timer callback (ping or auth) that runs on a session closeConnection
\* has finished with changes nothing of the session: writer, pending-flush set,
\* ping counter and timers stay as they are.
C18_TimerAfterCloseIsNoOp ==
  [][\A c \in Clients :
       c \in closeDone /\ ~conn[c] /\ TimerCallbackStep(c)
         => TimerState(c)' = TimerState(c)]_vars

\* deliverMsg, past its unlocked test, takes a step for publisher c on a
\* subscription whose session has its connection cleared: the locked part, or
\* the mark in c.pcd after it.
DeliverToClosed(c) ==
  /\ pc[RL(c)] \in {"dm_lock", "dm_pcd"}
  /\ pc'[RL(c)] # pc[RL(c)]
  /\ ~conn[subs[pm[c].sub].client]

\* C19: a delivery to a subscription whose session has entered CLOSED is
\* skipped entirely, also when the session closes while the delivery is under
\* way: nothing is written to the session, the subscription's counter and its
\* count of deliveries stay, and the session does not join the publisher's
\* pending-flush set.
C19_ClosedTargetSkipped ==
  [][\A c \in Clients :
       DeliverToClosed(c) => UNCHANGED << subs, written, wlog, bw, bwerr, pcd >>]_vars

\* The Index admitted subscription s when processSub inserted it.
Admitted(s) == InsertOK(subs[s].subject)

\* A SUB the Index rejected is answered with -ERR (not +OK) and has left its
\* subscription in neither the Index nor the sid-map.
RejectedSubRegistersNothing ==
  /\ \A s \in SubIds : ~Admitted(s) => ~InIndex(s) /\ ~InSidmap(s)
  /\ \A c \in Clients :
       pc[RL(c)] = "op_ret" /\ arg[c].op = "SUB" /\ ~Admitted(arg[c].sub) => arg[c].err

\* The handles a step asks the Index to remove: the one unsubscribe is called
\* with (from UNSUB or from deliverMsg) unless it stays, and the one
\* closeConnection's loop takes from its snapshot.
RemoveAsked ==
  { s \in SubIds :
      \/ \E c \in Clients :
           \/ pc[RL(c)] = "unsub" /\ pc'[RL(c)] # "unsub" /\ arg[c].sub = s
                /\ ~unsubscribeKeeps(s)
           \/ pc[RL(c)] = "dm_unsub" /\ pc'[RL(c)] # "dm_unsub" /\ pm[c].sub = s
                /\ ~unsubscribeKeeps(s)
      \/ \E t \in Threads :
           pc[t] = "cc_remove" /\ s \in csubs[t] /\ s \notin csubs'[t] }

\* C20: a SUB with an invalid subject gets -ERR 'Invalid Subject' and no +OK,
\* and registers nothing: its subscription is in neither the Index nor the
\* sid-map, and no later UNSUB or close asks the Index to remove a handle it
\* never admitted.
C20_InvalidSubRegistersNothing ==
  /\ []RejectedSubRegistersNothing
  /\ [][\A s \in RemoveAsked : Admitted(s)]_vars

\* The second half of C20 alone: the Index is only asked to remove handles it
\* admitted.
RemovesOnlyAdmitted ==
  [][\A s \in RemoveAsked : Admitted(s)]_vars

====
